---- MODULE Spec2Model ----
(***************************************************************************)
(* A model of the Streamlit study assistant of src/app_production.py: the  *)
(* model-loading sidebar, the document processor and the three inference   *)
(* pages (question answering, summarization, quiz generation).             *)
(*                                                                         *)
(* One step of the model is one run of the script (StudyAssistantApp.main) *)
(* triggered by one user event on a widget the previous run rendered.      *)
(* A widget keeps its value across runs as long as every run renders it;   *)
(* a widget a run does not render loses its value.                         *)
(* SpecTask follows one button handler statement by statement instead.    *)
(*                                                                         *)
(* Text is a sequence of one-character strings.  Python's None is the      *)
(* one-element sequence None, which is no text, no name and no file.       *)
(***************************************************************************)
EXTENDS Integers, Sequences, FiniteSets, TLC

None == <<"None">>

(***************************************************************************)
(* Bounds of the model.                                                    *)
(***************************************************************************)
MaxLoadCalls == 3      \* load_models calls explored per behaviour
MaxDocLen    == 2      \* longest document / pasted text of Spec
MaxSumLen    == 8      \* longest text of SpecSummarize
MaxQuizLen   == 7      \* longest text of SpecQuiz
MaxPages     == 2      \* most pages / paragraphs of a document of SpecExtract
MaxPageLen   == 1      \* longest page / paragraph of SpecExtract

(***************************************************************************)
(* Program constants.  The character limits and word thresholds are the    *)
(* source's literals scaled down so that bounded texts cross them; the     *)
(* comparisons they appear in are the source's.                            *)
(***************************************************************************)
max_input        == 2    \* max_input = 3000          (scaled)
max_chunks       == 3    \* chunks[:3]
min_chunk_words  == 0    \* len(chunk.split()) > 50   (scaled)
min_sentence_words == 1  \* len(s.split()) > 5        (scaled)
max_prompt       == 3    \* sentence[:200]            (scaled)
max_context      == 1    \* max_context = 2000        (scaled)
low_confidence   == 30   \* result['score'] < 0.3, in percent
summary_max_length == 130  \* slider default of max_length
summary_min_length == 30   \* slider default of min_length
quiz_max_length  == 50   \* quiz_gen(prompt, max_length=50)

(***************************************************************************)
(* Python helpers.                                                         *)
(***************************************************************************)
Min(a, b) == IF a < b THEN a ELSE b

\* s[i:j] for 0 <= i, 0 <= j: clipped to the length of s.
Slice(s, i, j) == SubSeq(s, i + 1, Min(j, Len(s)))

\* bool(x) for x a str or None.
Truthy(x) == x # None /\ x # <<>>

IsSpace(c) == c \in {" ", "\n"}

\* len(s.split()): the number of maximal runs of non-whitespace characters.
WordCount(s) ==
  Cardinality({i \in 1..Len(s) : ~IsSpace(s[i]) /\ (i = 1 \/ IsSpace(s[i-1]))})

\* s.strip()
RECURSIVE LStrip(_)
LStrip(s) == IF s # <<>> /\ IsSpace(s[1]) THEN LStrip(Tail(s)) ELSE s
RECURSIVE RStrip(_)
RStrip(s) ==
  IF s # <<>> /\ IsSpace(s[Len(s)]) THEN RStrip(SubSeq(s, 1, Len(s) - 1)) ELSE s
Strip(s) == RStrip(LStrip(s))

\* list(range(0, n + 1, step)): the range that includes its end
Range0Inclusive(n, step) == [k \in 1..(n \div step + 1) |-> (k - 1) * step]

\* list(range(0, n, step)) for step > 0
Range0(n, step) == [k \in 1..((n + step - 1) \div step) |-> (k - 1) * step]

\* "".join(parts)
RECURSIVE JoinEmpty(_)
JoinEmpty(parts) ==
  IF parts = <<>> THEN <<>> ELSE parts[1] \o JoinEmpty(Tail(parts))

\* " ".join(parts)
RECURSIVE JoinSpace(_)
JoinSpace(parts) ==
  IF parts = <<>> THEN <<>>
  ELSE IF Len(parts) = 1 THEN parts[1]
  ELSE parts[1] \o <<" ">> \o JoinSpace(Tail(parts))

\* All sequences over S of length at most n.
SeqsUpTo(S, n) == UNION {[1..k -> S] : k \in 0..n}

(***************************************************************************)
(* Uploaded files: <<name, type, data>>.  A name is <<stem, suffix>>.  The *)
(* byte BAD is one that is not valid UTF-8.                                *)
(***************************************************************************)
BAD == "\\xff"
FileName(f) == f[1]
FileType(f) == f[2]
FileData(f) == f[3]

DocChars  == {"a", " "}
SumChars  == {"a", " "}
QuizChars == {"a", " ", "."}
Names     == {<<"a", ".txt">>, <<"b", ".txt">>}

PdfType   == "application/pdf"
DocxType  == "application/vnd.openxmlformats-officedocument.wordprocessingml.document"
TxtType   == "text/plain"
MdType    == "text/markdown"
OctetType == "application/octet-stream"

TxtFiles(names, texts) ==
  {<<n, TxtType, d>> : n \in names, d \in texts \cup {<<BAD>>}}

\* The pages of a PDF and the paragraphs of a DOCX: a part holding BAD is
\* one the reading library raises on.
PartTexts == SeqsUpTo({"a", BAD}, MaxPageLen)
Parts     == SeqsUpTo(PartTexts, MaxPages)

\* What a user may offer to an uploader: documents of the three formats,
\* declared as such by the browser or as plain bytes, and Markdown notes.
OfferedFiles ==
  {<<<<"a", ".pdf">>, t, d>> : t \in {PdfType, OctetType}, d \in Parts}
  \cup {<<<<"a", ".PDF">>, OctetType, d>> : d \in Parts}
  \cup {<<<<"a", ".docx">>, t, d>> : t \in {DocxType, OctetType}, d \in Parts}
  \cup {<<<<"a", ".txt">>, t, d>> : t \in {TxtType, OctetType}, d \in PartTexts}
  \cup {<<<<"a", ".md">>, t, <<"a">>>> : t \in {MdType, OctetType}}

DocTexts  == SeqsUpTo(DocChars, MaxDocLen)
SumTexts  == SeqsUpTo(SumChars, MaxSumLen)
QuizTexts == SeqsUpTo(QuizChars, MaxQuizLen)

VARIABLES
  MODELS_AVAILABLE,   \* the import of the model libraries succeeded
  cache,              \* st.cache_resource entry of load_models
  models,             \* st.session_state.models
  current_document,   \* st.session_state.current_document
  document_text,      \* st.session_state.document_text
  feature,            \* the sidebar's selected feature
  input_method,       \* the summarization page's radio
  uploaded_file,      \* the file in the current page's uploader
  text_area,          \* the summarization page's pasted text
  loader_runs,        \* executions of the body of load_models
  load_calls,         \* calls of load_models
  last_return,        \* what the last call of load_models returned
  refused,            \* the file the uploader has just refused, if any
  task,               \* the button handler in progress, statement by statement
  run                 \* what the last run of the script rendered and did

vars == <<MODELS_AVAILABLE, cache, models, current_document, document_text,
          feature, input_method, uploaded_file, text_area,
          loader_runs, load_calls, last_return, refused, task, run>>

(***************************************************************************)
(* AIModels.load_models                                                    *)
(***************************************************************************)
Pipelines == <<"summarizer", "qa", "embedder", "quiz_gen">>

\* The body: failAt is the construction that raises (0: none does).
LoadModelsBody(failAt) ==
  IF ~MODELS_AVAILABLE THEN None
  ELSE IF failAt = 0 THEN Pipelines
  ELSE None

\* The pipelines in the local dict `models` when the body returns: those
\* constructed before the one that raises.
Built(failAt) ==
  IF ~MODELS_AVAILABLE THEN <<>>
  ELSE IF failAt = 0 THEN Pipelines
  ELSE SubSeq(Pipelines, 1, failAt - 1)

NoEntry == <<"miss">>

\* The loader without st.cache_resource: the body runs on every call.
load_models_uncached(c, failAt) ==
  [value |-> LoadModelsBody(failAt), cache |-> c, ran |-> 1,
   built |-> Built(failAt)]

\* @st.cache_resource: the first call runs the body and stores what it
\* returned, None included; every later call returns the stored value.
load_models(c, failAt) ==
  IF c[1] = "hit" THEN [value |-> c[2], cache |-> c, ran |-> 0, built |-> <<>>]
  ELSE LET v == LoadModelsBody(failAt)
       IN  [value |-> v, cache |-> <<"hit", v>>, ran |-> 1,
            built |-> Built(failAt)]

(***************************************************************************)
(* DocumentProcessor                                                       *)
(***************************************************************************)
\* file.read().decode('utf-8'); a decoding error returns None.
extract_text_from_txt(f) ==
  IF \E i \in 1..Len(FileData(f)) : FileData(f)[i] = BAD THEN None
  ELSE FileData(f)

\* word in file_type, for the declared types of the model
TypeHas(t, word) ==
  CASE word = "pdf"  -> t = PdfType
    [] word = "word" -> t = DocxType
    [] word = "text" -> t \in {TxtType, MdType}
    [] OTHER -> FALSE

\* suffix.lower()
Lower(x) == IF x = ".PDF" THEN ".pdf" ELSE x

\* file_name = uploaded_file.name.lower(); file_name.endswith(x)
EndsWith(f, x) == Lower(FileName(f)[2]) = x

IsPdf(f)  == TypeHas(FileType(f), "pdf") \/ EndsWith(f, ".pdf")
IsDocx(f) == TypeHas(FileType(f), "word") \/ EndsWith(f, ".docx")
IsTxt(f)  == TypeHas(FileType(f), "text") \/ EndsWith(f, ".txt")

\* PyPDF2: text += page.extract_text() + "\n" for each page, in page order;
\* any exception returns None.  The data of a PDF is its sequence of pages.
RECURSIVE PdfText(_)
PdfText(pages) ==
  IF pages = <<>> THEN <<>>
  ELSE pages[1] \o <<"\n">> \o PdfText(Tail(pages))

Unreadable(parts) ==
  \E k \in 1..Len(parts) : \E i \in 1..Len(parts[k]) : parts[k][i] = BAD

\* The PDF extractor that keeps what it read before the page that raised.
RECURSIVE PdfTextRead(_)
PdfTextRead(pages) ==
  IF pages = <<>> \/ Unreadable(<<pages[1]>>) THEN <<>>
  ELSE pages[1] \o <<"\n">> \o PdfTextRead(Tail(pages))

extract_text_from_pdf_partial(f) == PdfTextRead(FileData(f))

extract_text_from_pdf(f) ==
  IF Unreadable(FileData(f)) THEN None ELSE PdfText(FileData(f))

\* python-docx: "\n".join(para.text for para in doc.paragraphs).  The data
\* of a DOCX is its sequence of paragraphs.
RECURSIVE JoinNewline(_)
JoinNewline(parts) ==
  IF parts = <<>> THEN <<>>
  ELSE IF Len(parts) = 1 THEN parts[1]
  ELSE parts[1] \o <<"\n">> \o JoinNewline(Tail(parts))

extract_text_from_docx(f) ==
  IF Unreadable(FileData(f)) THEN None ELSE JoinNewline(FileData(f))

\* The extractor process_document passes the file to.
Extractor(f) ==
  IF f = None THEN "none"
  ELSE IF IsPdf(f) THEN "pdf"
  ELSE IF IsDocx(f) THEN "docx"
  ELSE IF IsTxt(f) THEN "txt"
  ELSE "none"

\* The call of extractor x on the file.
Extract(x, f) ==
  CASE x = "pdf"  -> extract_text_from_pdf(f)
    [] x = "docx" -> extract_text_from_docx(f)
    [] x = "txt"  -> extract_text_from_txt(f)
    [] OTHER -> None

process_document(f) == Extract(Extractor(f), f)

\* The st.error process_document and its extractor leave on the page,
\* given the extractor called and what it returned.
DocError(f, x, text) ==
  IF f = None THEN ""
  ELSE IF x = "none" THEN "Unsupported file type"
  ELSE IF text = None THEN "Error reading"
  ELSE ""

\* A page run that passed f to process_document, with what came of it.
WithDocument(pg, f, x, text) ==
  [pg EXCEPT !.processed = <<f>>, !.extractor = x, !.text = text,
             !.doc_error = DocError(f, x, text)]

\* st.file_uploader(..., type=['pdf', 'docx', 'txt']) without the type list
AcceptedAny(f) == TRUE

\* st.file_uploader(..., type=['pdf', 'docx', 'txt']): the uploader takes
\* a file by the extension of its name.
Accepted(f) == Lower(FileName(f)[2]) \in {".pdf", ".docx", ".txt"}

(***************************************************************************)
(* The inference capabilities: black boxes, each a function of its input   *)
(* that may raise.                                                         *)
(***************************************************************************)
\* The first word of s.
RECURSIVE FirstWord(_)
FirstWord(s) ==
  LET t == LStrip(s)
  IN  IF t = <<>> \/ IsSpace(t[1]) THEN <<>>
      ELSE <<t[1]>> \o (IF Len(t) > 1 /\ ~IsSpace(t[2]) THEN FirstWord(Tail(t)) ELSE <<>>)

\* summarizer(chunk, ...)[0]['summary_text']
SummaryOf(chunk) == FirstWord(chunk)

\* quiz_gen(prompt, max_length=50)[0]['generated_text']
QuestionOf(prompt) == <<"?">> \o prompt

\* qa_pipeline(question=..., context=...)['answer']: a span of the context.
AnswerOf(question, context) == FirstWord(context)

Call(cap, question, text, maxlen, minlen) ==
  [cap |-> cap, question |-> question, text |-> text,
   max_length |-> maxlen, min_length |-> minlen]

(***************************************************************************)
(* What a page run reports: the widgets it rendered, the widget values it  *)
(* keeps, the session state it leaves, and what it did.                    *)
(***************************************************************************)
Blank(ss) ==
  [cd |-> ss.current_document, dt |-> ss.document_text,
   method |-> "upload", file |-> None, pasted |-> <<>>,
   rendered |-> {}, processed |-> <<>>, calls |-> <<>>,
   extractor |-> "none", text |-> None, doc_error |-> "",
   status |-> "idle", error |-> "",
   answer |-> None, score |-> 0, low |-> FALSE,
   chunks |-> <<>>, summary |-> None, compression |-> 0,
   asked |-> 0, items |-> <<>>]

(***************************************************************************)
(* StudyAssistantApp.question_answering_interface                          *)
(*   ss: the session state, f: the uploader's file, q: the question typed, *)
(*   click: "Get Answer" was clicked, out: what the QA pipeline does.      *)
(***************************************************************************)
Reprocess(ss, f) == ss.current_document # FileName(f)

\* The test with <= for <.
LowConfidenceOrEqual(score) == score <= low_confidence

\* if result['score'] < 0.3: st.warning("Low confidence answer. ...")
LowConfidence(score) == score < low_confidence

\* The context without the limit: the whole cached text.
ContextWhole(dt) == dt

\* context = st.session_state.document_text[:max_context]
Context(dt) == Slice(dt, 0, max_context)

\* The page below the check that the models are loaded.
QuestionAnswering(ss, f, q, click, out) ==
  IF f = None THEN [Blank(ss) EXCEPT !.rendered = {"uploader"}]
  ELSE
    LET reprocess == Reprocess(ss, f)
        text  == IF reprocess THEN process_document(f) ELSE None
        store == reprocess /\ Truthy(text)
        cd    == IF store THEN FileName(f) ELSE ss.current_document
        dt    == IF store THEN text ELSE ss.document_text
        kept  == [Blank(ss) EXCEPT !.cd = cd, !.dt = dt, !.file = f,
                                   !.rendered = {"uploader"}]
        base  == IF reprocess THEN WithDocument(kept, f, Extractor(f), text)
                 ELSE kept
    IN  IF ~Truthy(dt) THEN base
        ELSE IF ~(q # "" /\ click)
        THEN [base EXCEPT !.rendered = {"uploader", "question"}]
        ELSE
          LET context == Context(dt)
              called  == [base EXCEPT
                            !.rendered = {"uploader", "question"},
                            !.calls = <<Call("qa", q, context, 0, 0)>>]
          IN  IF out.raises
              THEN [called EXCEPT !.status = "failed", !.error = "qa"]
              ELSE [called EXCEPT !.status = "done",
                                  !.answer = AnswerOf(q, context),
                                  !.score = out.score,
                                  !.low = LowConfidence(out.score)]

\* The page without the check that the models are loaded.
question_answering_unchecked(ss, f, q, click, out) ==
  QuestionAnswering(ss, f, q, click, out)

question_answering_interface(ss, f, q, click, out) ==
  IF ss.models = None THEN Blank(ss)
  ELSE QuestionAnswering(ss, f, q, click, out)

(***************************************************************************)
(* StudyAssistantApp.summarization_interface                               *)
(*   method: the radio, f: the uploader's file, pasted: the text area,     *)
(*   click: "Generate Summary" was clicked, failAt: the summarizer call    *)
(*   that raises (0: none does).                                           *)
(***************************************************************************)
\* The chunking with windows one character short.
ChunksShort(text) ==
  LET starts == Range0(Len(text), max_input)
  IN  [k \in 1..Len(starts) |-> Slice(text, starts[k], starts[k] + max_input - 1)]

\* chunks = [text[i:i+max_input] for i in range(0, len(text), max_input)]
Chunks(text) ==
  LET starts == Range0(Len(text), max_input)
  IN  [k \in 1..Len(starts) |-> Slice(text, starts[k], starts[k] + max_input)]

\* The test with >= for >.
SubstantialOrEqual(chunk) == WordCount(chunk) >= min_chunk_words

\* if len(chunk.split()) > 50
Substantial(chunk) == WordCount(chunk) > min_chunk_words

\* for i, chunk in enumerate(chunks[:3]): one pass of the loop from chunk i
\* on, with the calls made and the summaries appended so far.  An exception
\* leaves the loop (raised), and with it the try block.
RECURSIVE SummarizeLoop(_, _, _, _, _)
SummarizeLoop(chunks, i, calls, summaries, failAt) ==
  IF i > Len(chunks)
  THEN [calls |-> calls, summaries |-> summaries, raised |-> FALSE]
  ELSE IF ~Substantial(chunks[i])
  THEN SummarizeLoop(chunks, i + 1, calls, summaries, failAt)
  ELSE LET made == Append(calls, Call("summarizer", "", chunks[i],
                                      summary_max_length, summary_min_length))
       IN  IF Len(made) = failAt
           THEN [calls |-> made, summaries |-> summaries, raised |-> TRUE]
           ELSE SummarizeLoop(chunks, i + 1, made,
                              Append(summaries, SummaryOf(chunks[i])), failAt)

\* (1 - len(final_summary)/len(text_content)) * 100, as a whole percentage
Compression(final_summary, text_content) ==
  100 - ((100 * Len(final_summary)) \div Len(text_content))

\* The summary section shown whatever the text.
HasContentAlways(text_content) == TRUE

\* if text_content: the summary section is shown for a text that is
\* neither None nor empty.
HasContent(text_content) == Truthy(text_content)

summarization_interface(ss, method, f, pasted, click, failAt) ==
  IF ss.models = None THEN Blank(ss)
  ELSE
    LET upload == method = "upload"
        text_content == IF upload
                        THEN (IF f # None THEN process_document(f) ELSE <<>>)
                        ELSE pasted
        page == [Blank(ss) EXCEPT
                   !.method = method,
                   !.file = IF upload THEN f ELSE None,
                   !.pasted = IF upload THEN <<>> ELSE pasted,
                   !.rendered = {"input_method"} \cup
                                (IF upload THEN {"uploader"} ELSE {"text_area"})]
        base == IF upload /\ f # None
                THEN WithDocument(page, f, Extractor(f), text_content)
                ELSE page
    IN  IF ~HasContent(text_content) THEN base
        ELSE
          LET shown == [base EXCEPT !.rendered = @ \cup {"summary_button"}]
          IN  IF ~click THEN shown
              ELSE
                LET chunks == Chunks(text_content)
                    loop   == SummarizeLoop(Slice(chunks, 0, max_chunks), 1,
                                            <<>>, <<>>, failAt)
                    final_summary == JoinSpace(loop.summaries)
                    tried  == [shown EXCEPT !.chunks = chunks,
                                            !.calls = loop.calls]
                IN  IF loop.raised
                    THEN [tried EXCEPT !.status = "failed",
                                       !.error = "summarizer"]
                    ELSE IF Len(text_content) = 0
                    THEN [tried EXCEPT !.status = "failed",
                                       !.error = "ZeroDivisionError"]
                    ELSE [tried EXCEPT
                                       !.status = "done",
                                       !.summary = final_summary,
                                       !.compression =
                                          Compression(final_summary, text_content)]

(***************************************************************************)
(* StudyAssistantApp.quiz_interface                                        *)
(*   f: the uploader's file, click: "Generate Quiz" was clicked,           *)
(*   n: the "Number of questions" slider, failAt: the quiz_gen call that   *)
(*   raises (0: none does).                                                *)
(***************************************************************************)
\* text.split('.')
RECURSIVE SplitDot(_, _)
SplitDot(s, unit) ==
  IF s = <<>> THEN <<unit>>
  ELSE IF s[1] = "." THEN <<unit>> \o SplitDot(Tail(s), <<>>)
  ELSE SplitDot(Tail(s), Append(unit, s[1]))

LongEnough(s) == WordCount(s) > min_sentence_words

\* [s.strip() for s in units if len(s.split()) > 5]
RECURSIVE KeySentences(_)
KeySentences(units) ==
  IF units = <<>> THEN <<>>
  ELSE (IF LongEnough(units[1]) THEN <<Strip(units[1])>> ELSE <<>>)
       \o KeySentences(Tail(units))

Sentences(text) == KeySentences(SplitDot(text, <<>>))

\* sentences[:num_questions] without the clip
SelectedSentencesUnclipped(text, n) == Sentences(text)

\* selected_sentences = sentences[:num_questions]
SelectedSentences(text, n) == Slice(Sentences(text), 0, n)

\* The prompt with the whole sentence.
PromptWhole(sentence) == <<"generate question: ">> \o sentence

\* prompt = f"generate question: {sentence[:200]}"
Prompt(sentence) == <<"generate question: ">> \o Slice(sentence, 0, max_prompt)

\* for i, sentence in enumerate(selected_sentences, 1): the items rendered
\* so far stay on the page when a later call raises.
RECURSIVE QuizLoop(_, _, _, _, _)
QuizLoop(selected, i, calls, items, failAt) ==
  IF i > Len(selected)
  THEN [calls |-> calls, items |-> items, raised |-> FALSE]
  ELSE LET prompt == Prompt(selected[i])
           made   == Append(calls, Call("quiz_gen", "", prompt, quiz_max_length, 0))
       IN  IF Len(made) = failAt
           THEN [calls |-> made, items |-> items, raised |-> TRUE]
           ELSE QuizLoop(selected, i + 1, made,
                         Append(items, [question |-> QuestionOf(prompt),
                                        reference |-> selected[i]]),
                         failAt)

quiz_interface(ss, f, click, n, failAt) ==
  IF ss.models = None THEN Blank(ss)
  ELSE IF f = None THEN [Blank(ss) EXCEPT !.rendered = {"uploader"}]
  ELSE
    LET text_content == process_document(f)
        base == WithDocument([Blank(ss) EXCEPT !.file = f,
                                                !.rendered = {"uploader"}],
                             f, Extractor(f), text_content)
    IN  IF ~Truthy(text_content) THEN base
        ELSE
          LET shown == [base EXCEPT !.rendered = {"uploader", "quiz_button"}]
          IN  IF ~click THEN shown
              ELSE
                LET selected_sentences == SelectedSentences(text_content, n)
                    loop == QuizLoop(selected_sentences, 1, <<>>, <<>>, failAt)
                IN  [shown EXCEPT !.calls = loop.calls,
                                  !.asked = n,
                                  !.items = loop.items,
                                  !.status = IF loop.raised THEN "failed" ELSE "done",
                                  !.error = IF loop.raised THEN "quiz_gen" ELSE ""]

(***************************************************************************)
(* StudyAssistantApp.main: the sidebar, then the selected feature's page.  *)
(***************************************************************************)
Features == {"home", "qa", "quiz", "summary", "dashboard"}

Session == [models |-> models, current_document |-> current_document,
            document_text |-> document_text]

\* StudyAssistantApp.__init__ on a session without state
NewSession == [models |-> None, current_document |-> None,
               document_text |-> None]

\* The model loading section.  click: "Initialize AI Models" was clicked.
Sidebar(ss, click, failAt) ==
  IF ss.models = None /\ MODELS_AVAILABLE
  THEN IF click
       THEN LET r == load_models(cache, failAt)
            IN  [models |-> r.value, cache |-> r.cache, ran |-> r.ran,
                 built |-> r.built,
                 called |-> 1, ret |-> r.value, rendered |-> {"init_button"}]
       ELSE [models |-> ss.models, cache |-> cache, ran |-> 0, built |-> <<>>,
             called |-> 0, ret |-> last_return, rendered |-> {"init_button"}]
  ELSE [models |-> ss.models, cache |-> cache, ran |-> 0, built |-> <<>>,
        called |-> 0, ret |-> last_return, rendered |-> {}]

Page(ss, ev) ==
  CASE ev.feature = "qa" ->
         question_answering_interface(ss, ev.file, ev.question, ev.button, ev.out)
    [] ev.feature = "summary" ->
         summarization_interface(ss, ev.method, ev.file, ev.pasted, ev.button, ev.failAt)
    [] ev.feature = "quiz" ->
         quiz_interface(ss, ev.file, ev.button, ev.n, ev.failAt)
    [] OTHER -> Blank(ss)

RunRecord(sb, pg) ==
  [rendered |-> sb.rendered \cup pg.rendered,
   ready |-> sb.models # None,
   built |-> sb.built,
   processed |-> pg.processed, calls |-> pg.calls,
   extractor |-> pg.extractor, text |-> pg.text, doc_error |-> pg.doc_error,
   status |-> pg.status, error |-> pg.error,
   answer |-> pg.answer, score |-> pg.score, low |-> pg.low,
   chunks |-> pg.chunks, summary |-> pg.summary,
   compression |-> pg.compression, asked |-> pg.asked, items |-> pg.items]

main(ss, ev) ==
  LET sb == Sidebar(ss, ev.init_click, ev.failAt)
      pg == Page([ss EXCEPT !.models = sb.models], ev)
  IN  /\ models' = sb.models
      /\ cache' = sb.cache
      /\ loader_runs' = loader_runs + sb.ran
      /\ load_calls' = load_calls + sb.called
      /\ last_return' = sb.ret
      /\ feature' = ev.feature
      /\ input_method' = pg.method
      /\ uploaded_file' = pg.file
      /\ text_area' = pg.pasted
      /\ current_document' = pg.cd
      /\ document_text' = pg.dt
      /\ run' = RunRecord(sb, pg)
      /\ refused' = None
      /\ UNCHANGED <<MODELS_AVAILABLE, task>>

(***************************************************************************)
(* User events.  Each reruns the script with the widget values of the      *)
(* previous run, changed by the event; a button is down only in the run    *)
(* its click triggers.                                                     *)
(***************************************************************************)
Questions   == {"q"}
Scores      == {0, 29, 30, 100}
QAOutcomes  == {[raises |-> TRUE, score |-> 0]}
               \cup {[raises |-> FALSE, score |-> s] : s \in Scores}
min_questions == 1     \* st.slider("Number of questions:", 3, 10, 5) (scaled)
max_questions == 2

FirstRun ==
  [init_click |-> FALSE, failAt |-> 0, feature |-> "home",
   method |-> "upload", file |-> None, pasted |-> <<>>,
   question |-> "", button |-> FALSE,
   out |-> [raises |-> FALSE, score |-> 0], n |-> min_questions]

Rerun == [FirstRun EXCEPT !.feature = feature, !.method = input_method,
                          !.file = uploaded_file, !.pasted = text_area]

\* "Initialize AI Models" is clicked.
InitializeModels ==
  /\ "init_button" \in run.rendered
  /\ load_calls < MaxLoadCalls
  /\ \E failAt \in 0..Len(Pipelines) :
       main(Session, [Rerun EXCEPT !.init_click = TRUE, !.failAt = failAt])

\* Another feature is selected: its page starts with fresh widgets.
SelectFeature ==
  \E p \in Features \ {feature} :
    main(Session, [FirstRun EXCEPT !.feature = p])

\* The browser page is reloaded: a new session of the same process.
Reload == main(NewSession, FirstRun)

\* A file is put into the page's uploader.
UploadFile(files) ==
  /\ "uploader" \in run.rendered
  /\ \E f \in files :
       /\ Accepted(f)
       /\ main(Session, [Rerun EXCEPT !.file = f])

\* A file of another extension is offered: the uploader refuses it and the
\* script does not run.
RefuseFile(files) ==
  /\ "uploader" \in run.rendered
  /\ \E f \in files :
       /\ ~Accepted(f)
       /\ refused' = f
       /\ UNCHANGED <<MODELS_AVAILABLE, cache, models, current_document,
                      document_text, feature, input_method, uploaded_file,
                      text_area, loader_runs, load_calls, last_return, task,
                      run>>

\* The file is taken out of the uploader.
RemoveFile ==
  /\ "uploader" \in run.rendered
  /\ uploaded_file # None
  /\ main(Session, [Rerun EXCEPT !.file = None])

\* The summarization page's input method is switched.
ChooseInputMethod ==
  /\ "input_method" \in run.rendered
  /\ \E m \in {"upload", "paste"} \ {input_method} :
       main(Session, [Rerun EXCEPT !.method = m, !.file = None, !.pasted = <<>>])

\* Text is typed into the summarization page's text area.
PasteText(texts) ==
  /\ "text_area" \in run.rendered
  /\ \E t \in texts : main(Session, [Rerun EXCEPT !.pasted = t])

\* A question is typed and "Get Answer" is clicked.
AskQuestion ==
  /\ "question" \in run.rendered
  /\ \E q \in Questions, out \in QAOutcomes :
       main(Session, [Rerun EXCEPT !.question = q, !.button = TRUE, !.out = out])

\* "Generate Summary" is clicked.
GenerateSummary ==
  /\ "summary_button" \in run.rendered
  /\ \E failAt \in 0..max_chunks :
       main(Session, [Rerun EXCEPT !.button = TRUE, !.failAt = failAt])

\* The slider is set and "Generate Quiz" is clicked.
GenerateQuiz ==
  /\ "quiz_button" \in run.rendered
  /\ \E n \in min_questions..max_questions, failAt \in 0..max_questions :
       main(Session, [Rerun EXCEPT !.button = TRUE, !.n = n, !.failAt = failAt])

(***************************************************************************)
(* A button handler statement by statement: the body of                    *)
(* `if st.button(...)`, from the click to the end of its try statement.    *)
(* The handler of "Get Answer" works on the cached text, those of          *)
(* "Generate Summary" and "Generate Quiz" on the page's text_content.      *)
(***************************************************************************)
IdleTask ==
  [kind |-> "none", phase |-> "idle", text |-> <<>>, n |-> 0,
   work |-> <<>>, i |-> 0, calls |-> 0, results |-> <<>>, error |-> ""]

\* The work list of the summarization handler without chunks[:3].
TaskWorkUncapped(kind, text, n) ==
  CASE kind = "qa" -> <<Context(text)>>
    [] kind = "summary" -> Chunks(text)
    [] kind = "quiz" -> SelectedSentences(text, n)

\* What the handler's loop goes through: the context of the one QA call,
\* chunks[:3], selected_sentences.
TaskWork(kind, text, n) ==
  CASE kind = "qa" -> <<Context(text)>>
    [] kind = "summary" -> Slice(Chunks(text), 0, max_chunks)
    [] kind = "quiz" -> SelectedSentences(text, n)

\* The element the loop is at is passed to the pipeline.
Dispatches(t) ==
  /\ t.phase = "dispatching"
  /\ t.i <= Len(t.work)
  /\ t.kind = "summary" => Substantial(t.work[t.i])

\* What a call that returns adds to the page.
ResultOf(t) ==
  CASE t.kind = "qa" -> AnswerOf("q", t.work[t.i])
    [] t.kind = "summary" -> SummaryOf(t.work[t.i])
    [] t.kind = "quiz" -> [question |-> QuestionOf(Prompt(t.work[t.i])),
                           reference |-> t.work[t.i]]

AppUnchanged ==
  UNCHANGED <<MODELS_AVAILABLE, cache, models, current_document,
              document_text, feature, input_method, uploaded_file, text_area,
              loader_runs, load_calls, last_return, refused, run>>

\* The button of the selected feature's page is clicked, on a text the
\* page has.
StartTask(kind, texts) ==
  /\ task.phase = "idle"
  /\ feature = kind
  /\ \E text \in texts, n \in min_questions..max_questions :
       /\ Truthy(text)
       /\ kind = "quiz" \/ n = min_questions
       /\ task' = [IdleTask EXCEPT !.kind = kind, !.phase = "chunking",
                                   !.text = text,
                                   !.n = IF kind = "quiz" THEN n ELSE 0]
  /\ AppUnchanged

\* The statements before the loop: the context, the chunks, the sentences.
ChunkText ==
  /\ task.phase = "chunking"
  /\ task' = [task EXCEPT !.phase = "dispatching",
                          !.work = TaskWork(task.kind, task.text, task.n),
                          !.i = 1]
  /\ AppUnchanged

\* A chunk of too few words is passed over.
SkipChunk ==
  /\ task.phase = "dispatching"
  /\ task.i <= Len(task.work)
  /\ ~Dispatches(task)
  /\ task' = [task EXCEPT !.i = @ + 1]
  /\ AppUnchanged

\* The pipeline is called and returns.
DispatchReturns ==
  /\ Dispatches(task)
  /\ task' = [task EXCEPT !.calls = @ + 1,
                          !.results = Append(@, ResultOf(task)),
                          !.i = @ + 1]
  /\ AppUnchanged

\* The pipeline is called and raises: the except clause reports the error.
DispatchRaises ==
  /\ Dispatches(task)
  /\ task' = [task EXCEPT !.calls = @ + 1, !.phase = "failed",
                          !.error = task.kind]
  /\ AppUnchanged

\* The loop is over.
LeaveLoop ==
  /\ task.phase = "dispatching"
  /\ task.i > Len(task.work)
  /\ task' = [task EXCEPT !.phase = "aggregating"]
  /\ AppUnchanged

\* The statements after the loop: the joined summary and its statistics;
\* the division by len(text_content) raises on an empty text.
FinishTask ==
  /\ task.phase = "aggregating"
  /\ task' = IF task.kind = "summary" /\ Len(task.text) = 0
             THEN [task EXCEPT !.phase = "failed", !.error = "ZeroDivisionError"]
             ELSE [task EXCEPT !.phase = "done",
                     !.results = IF task.kind = "summary"
                                 THEN <<JoinSpace(@)>> ELSE @]
  /\ AppUnchanged

\* Any later run of the script: the button is up and its output is gone.
DismissTask ==
  /\ task.phase \in {"done", "failed"}
  /\ task' = IdleTask
  /\ AppUnchanged

(***************************************************************************)
(* The application: a process starts, and its first session's first run    *)
(* shows the home page.                                                    *)
(***************************************************************************)
StartIn(ss, page, available, c, loads) ==
  /\ MODELS_AVAILABLE = available
  /\ cache = c
  /\ models = ss.models
  /\ current_document = ss.current_document
  /\ document_text = ss.document_text
  /\ feature = page
  /\ input_method = "upload"
  /\ uploaded_file = None
  /\ text_area = <<>>
  /\ loader_runs = loads
  /\ load_calls = loads
  /\ last_return = IF loads = 0 THEN None ELSE ss.models
  /\ refused = None
  /\ task = IdleTask
  /\ run = RunRecord([models |-> ss.models, built |-> <<>>,
                      rendered |-> IF ss.models = None /\ available
                                   THEN {"init_button"} ELSE {}],
                     IF ss.models = None THEN Blank(ss)
                     ELSE IF page = "summary"
                     THEN [Blank(ss) EXCEPT !.rendered = {"input_method", "uploader"}]
                     ELSE IF page \in {"qa", "quiz"}
                     THEN [Blank(ss) EXCEPT !.rendered = {"uploader"}]
                     ELSE Blank(ss))

Init == \E available \in BOOLEAN : StartIn(NewSession, "home", available, NoEntry, 0)

Next ==
  \/ InitializeModels
  \/ SelectFeature
  \/ Reload
  \/ UploadFile(TxtFiles(Names, DocTexts))
  \/ RemoveFile
  \/ ChooseInputMethod
  \/ PasteText(DocTexts)
  \/ AskQuestion
  \/ GenerateSummary
  \/ GenerateQuiz

Spec == Init /\ [][Next]_vars

(***************************************************************************)
(* The summarization page and the quiz page on longer texts, from the      *)
(* state the application is in once the models are loaded and the page is  *)
(* selected.                                                               *)
(***************************************************************************)
Loaded == [NewSession EXCEPT !.models = Pipelines]

InitSummarize == StartIn(Loaded, "summary", TRUE, <<"hit", Pipelines>>, 1)

\* A text is given once per visit of the page: into the empty uploader or
\* into the empty text area.
NextSummarize ==
  \/ (uploaded_file = None /\ UploadFile(TxtFiles({<<"a", ".txt">>}, SumTexts)))
  \/ RemoveFile
  \/ ChooseInputMethod
  \/ (text_area = <<>> /\ PasteText(SumTexts))
  \/ GenerateSummary

SpecSummarize == InitSummarize /\ [][NextSummarize]_vars

InitQuiz == StartIn(Loaded, "quiz", TRUE, <<"hit", Pipelines>>, 1)

NextQuiz ==
  \/ (uploaded_file = None /\ UploadFile(TxtFiles({<<"a", ".txt">>}, QuizTexts)))
  \/ RemoveFile
  \/ GenerateQuiz

SpecQuiz == InitQuiz /\ [][NextQuiz]_vars

(***************************************************************************)
(* The document processor on documents of every format, behind the quiz    *)
(* page's uploader.                                                        *)
(***************************************************************************)
NextExtract ==
  \/ (uploaded_file = None /\ UploadFile(OfferedFiles))
  \/ RefuseFile(OfferedFiles)
  \/ RemoveFile
  \/ GenerateQuiz

SpecExtract == InitQuiz /\ [][NextExtract]_vars

(***************************************************************************)
(* The button handlers, statement by statement.  Once a handler has        *)
(* started, the interpreter runs it on: each of its steps is taken when it *)
(* is enabled, a pipeline call either returning or raising.                *)
(***************************************************************************)
TaskStep ==
  \/ ChunkText
  \/ SkipChunk
  \/ DispatchReturns
  \/ DispatchRaises
  \/ LeaveLoop
  \/ FinishTask

InitTask == StartIn(Loaded, "home", TRUE, <<"hit", Pipelines>>, 1)

NextTask ==
  \/ (task.phase = "idle" /\ SelectFeature)
  \/ StartTask("qa", DocTexts)
  \/ StartTask("summary", SumTexts)
  \/ StartTask("quiz", QuizTexts)
  \/ TaskStep
  \/ DismissTask

SpecTask == InitTask /\ [][NextTask]_vars /\ WF_vars(TaskStep)

(***************************************************************************)
(* Properties.                                                             *)
(***************************************************************************)

\* C1: after a load that failed (load_models returned None), the next load
\* request runs the loader body again: the failure is not cached.
C1_FailedLoadIsRetried ==
  [][(load_calls > 0 /\ last_return = None /\ load_calls' = load_calls + 1)
       => loader_runs' = loader_runs + 1]_vars

\* C2: once a load has succeeded, no later step runs the loader body again,
\* and every later load request returns the handle set.
C2_LoadedOnce ==
  [][last_return = Pipelines
       => /\ loader_runs' = loader_runs
          /\ (load_calls' # load_calls
                => models' = Pipelines /\ last_return' = Pipelines)]_vars

\* A load request made after a successful load, in a new session.
C2_Witness ==
  /\ load_calls >= 2
  /\ loader_runs = 1
  /\ models = Pipelines

\* C3: a run whose page found no loaded model set passes no file to the
\* document processor and calls no inference capability.
C3_NoDispatchBeforeLoad ==
  (run.processed # <<>> \/ run.calls # <<>>) => run.ready

\* An inference page ran without a model set, after a load request that
\* failed: it rendered nothing of its own.
C3_Witness ==
  /\ feature \in {"qa", "summary", "quiz"}
  /\ ~run.ready
  /\ run.rendered \subseteq {"init_button"}
  /\ load_calls > 0

\* The cached text is that of a document of this name and these contents.
SameIdentity(f) ==
  /\ current_document = FileName(f)
  /\ document_text = process_document(f)

\* C4: a run of the question answering page with a file in the uploader
\* extracts the file's text when and only when the file's identity (name
\* and contents) differs from that of the cached document.
C4_ReextractIffIdentityDiffers ==
  [][(feature' = "qa" /\ run'.ready /\ uploaded_file' # None)
       => ((run'.processed # <<>>) <=> ~SameIdentity(uploaded_file'))]_vars

\* Concatenation of the windows in order.  The windows of this chunking
\* step start max_input apart and are max_input long: the overlap to drop
\* from a window is empty.
RECURSIVE Flatten(_)
Flatten(ws) == IF ws = <<>> THEN <<>> ELSE ws[1] \o Flatten(Tail(ws))

\* The text the summarization page works on.
SummaryInput ==
  IF input_method = "upload" THEN process_document(uploaded_file) ELSE text_area

SummaryRan == feature = "summary" /\ run.status # "idle"

\* C5: the windows of a summarization run, concatenated in order, are the
\* text.
C5_ChunksRoundTrip ==
  SummaryRan => Flatten(run.chunks) = SummaryInput

\* A text of several windows, the last one shorter, was chunked.
C5_Witness ==
  /\ SummaryRan
  /\ Len(run.chunks) >= 3
  /\ Len(run.chunks[Len(run.chunks)]) < max_input

\* The k-th window of a text: its characters (k-1)*max_input+1 ..
\* k*max_input, as far as the text goes.
Window(text, k) ==
  [j \in 1..Min(max_input, Len(text) - (k - 1) * max_input)
     |-> text[(k - 1) * max_input + j]]

NumWindows(text) == (Len(text) + max_input - 1) \div max_input

\* The windows among the first `cap` that hold more words than the minimum,
\* from window k on, in window order.
RECURSIVE SummarizedWindows(_, _, _)
SummarizedWindows(text, k, cap) ==
  IF k > Min(cap, NumWindows(text)) THEN <<>>
  ELSE (IF WordCount(Window(text, k)) > min_chunk_words
        THEN <<Window(text, k)>> ELSE <<>>)
       \o SummarizedWindows(text, k + 1, cap)

\* The summaries of windows ws, each followed by a space but the last.
RECURSIVE SpacedSummaries(_)
SpacedSummaries(ws) ==
  IF ws = <<>> THEN <<>>
  ELSE SummaryOf(ws[1]) \o (IF Len(ws) > 1 THEN <<" ">> ELSE <<>>)
       \o SpacedSummaries(Tail(ws))

CallTexts == [i \in 1..Len(run.calls) |-> run.calls[i].text]

\* C7: when no summarizer call raises, the windows passed to the
\* summarizer are, in order, the windows among the first three that hold
\* more words than the minimum, and the final summary is their summaries
\* separated by single spaces.
C7_SummaryOfLeadingWindows ==
  (SummaryRan /\ run.status = "done")
    => LET ws == SummarizedWindows(SummaryInput, 1, max_chunks)
       IN  /\ CallTexts = ws
           /\ run.summary = SpacedSummaries(ws)

\* More than three windows, one of the first three skipped, two summarized.
C7_Witness ==
  /\ SummaryRan
  /\ run.status = "done"
  /\ Len(run.chunks) > max_chunks
  /\ WordCount(run.chunks[Len(run.chunks)]) > min_chunk_words
  /\ Len(run.calls) = 2
  /\ run.calls[1].text # run.calls[2].text

\* C8 (summarization): a summarizer call that raises loses only its own
\* window: every window that qualifies is still passed to the summarizer,
\* and the run fails only if no window was summarized.
C8_WindowFailureIsTolerated ==
  SummaryRan
    => LET ws == SummarizedWindows(SummaryInput, 1, max_chunks)
       IN  /\ CallTexts = ws
           /\ (run.status = "failed" => Len(ws) <= 1)

\* C9: a summarization run on a non-empty text none of whose windows holds
\* more words than the minimum calls no summarizer and ends done, with the
\* empty summary and no error.
C9_NothingSubstantial ==
  (/\ SummaryRan
   /\ \A k \in 1..NumWindows(SummaryInput) :
        WordCount(Window(SummaryInput, k)) <= min_chunk_words)
    => /\ run.calls = <<>>
       /\ run.status = "done"
       /\ run.error = ""
       /\ run.summary = <<>>

\* A text of two windows of blanks was summarized.
C9_Witness ==
  /\ SummaryRan
  /\ Len(SummaryInput) > max_input
  /\ WordCount(SummaryInput) = 0
  /\ run.status = "done"

\* The text the quiz page works on.
QuizInput == process_document(uploaded_file)

QuizRan == feature = "quiz" /\ run.status # "idle"

\* The positions of the sentence ends of a text: its full stops, and the
\* position past its last character.
Stops(text) == {i \in 1..Len(text) : text[i] = "."} \cup {Len(text) + 1}

\* The unit that ends at stop e: what lies between the stop before it (or
\* the start of the text) and e.
UnitAt(text, e) ==
  LET before == {d \in Stops(text) : d < e}
      b == IF before = {} THEN 0
           ELSE CHOOSE d \in before : \A x \in before : x <= d
  IN  SubSeq(text, b + 1, e - 1)

\* The stops of the units that hold more words than the minimum.
Surviving(text) ==
  {e \in Stops(text) : WordCount(UnitAt(text, e)) > min_sentence_words}

\* The i-th surviving unit is the one with i-1 surviving units before it.
SurvivingUnit(text, i) ==
  LET e == CHOOSE x \in Surviving(text) :
             Cardinality({y \in Surviving(text) : y < x}) = i - 1
  IN  UnitAt(text, e)

\* C10: a quiz run for n questions on a text with K surviving units, none
\* of whose generator calls raises, ends done with min(n, K) items, the
\* i-th built from the i-th surviving unit; a run fails only through a
\* generator call that raised.
C10_QuizItemCount ==
  QuizRan
    => LET K == Cardinality(Surviving(QuizInput))
       IN  /\ run.status = "failed" => (run.error = "quiz_gen" /\ run.calls # <<>>)
           /\ run.status = "done"
                => /\ Len(run.items) = Min(run.asked, K)
                   /\ \A i \in 1..Len(run.items) :
                        run.items[i].reference = Strip(SurvivingUnit(QuizInput, i))

\* Two questions asked of a text with one surviving unit.
C10_WitnessFewer ==
  /\ QuizRan
  /\ run.status = "done"
  /\ run.asked = 2
  /\ Cardinality(Surviving(QuizInput)) = 1
  /\ Len(run.items) = 1

QARan == feature = "qa" /\ run.status # "idle"

\* C11: a question answering run makes exactly one call, of the QA
\* pipeline, with the question typed and, as context, the first
\* min(len, max_context) characters of the cached text; a run that answers
\* nothing makes no call.
C11_OneCallOnPrefix ==
  /\ QARan
       => /\ Len(run.calls) = 1
          /\ run.calls[1].cap = "qa"
          /\ run.calls[1].question \in Questions
          /\ Len(run.calls[1].text) = Min(Len(document_text), max_context)
          /\ \A i \in 1..Len(run.calls[1].text) :
                run.calls[1].text[i] = document_text[i]
  /\ (feature = "qa" /\ run.status = "idle") => run.calls = <<>>

\* A question was asked of a text longer than the context limit.
C11_Witness ==
  /\ QARan
  /\ Len(document_text) > max_context
  /\ Len(run.calls[1].text) = max_context

\* C12: a question answering run whose call returned ends done with the
\* answer and the score, whatever the score; it carries the low-confidence
\* warning exactly when the score is below the threshold.  A run fails
\* only through a call that raised, and then shows no answer.
C12_LowConfidenceIsTagged ==
  QARan
    => /\ run.status \in {"done", "failed"}
       /\ run.status = "done"
            => /\ run.answer # None
               /\ run.error = ""
               /\ run.score \in Scores
               /\ run.low <=> run.score < low_confidence
       /\ run.status = "failed"
            => /\ run.error = "qa"
               /\ run.answer = None
               /\ ~run.low

\* An answer with a score just below the threshold.
C12_WitnessLow ==
  /\ QARan
  /\ run.status = "done"
  /\ run.score = low_confidence - 1
  /\ run.low
  /\ run.answer # None

\* C13: with a file in the uploader whose extracted text is the empty
\* string, the question answering page still takes a question, and a
\* question asked is passed to the QA pipeline with the empty context and
\* ends with a low-confidence answer or with the failure of the call.
C13_EmptyDocumentIsAnswered ==
  (/\ feature = "qa"
   /\ run.ready
   /\ uploaded_file # None
   /\ process_document(uploaded_file) = <<>>)
    => /\ "question" \in run.rendered
       /\ QARan
            => /\ Len(run.calls) = 1
               /\ run.calls[1].text = <<>>
               /\ \/ run.status = "failed" /\ run.error = "qa"
                  \/ run.status = "done" /\ run.answer # None /\ run.low

\* The declared type and the extension of a file are those of none of the
\* three formats.
MatchesNone(f) ==
  /\ FileType(f) \notin {PdfType, DocxType, TxtType}
  /\ Lower(FileName(f)[2]) \notin {".pdf", ".docx", ".txt"}

\* C14: a file whose declared type and extension are those of none of the
\* three formats is refused: it never is the uploader's file, and no run
\* passes it to an extractor.  Every file an extractor is called on has one
\* of the three extensions.
C14_OnlySupportedIsExtracted ==
  /\ uploaded_file # None => ~MatchesNone(uploaded_file)
  /\ refused # None => run.processed # <<refused>>
  /\ run.processed # <<>>
       => LET f == run.processed[1]
          IN  /\ MatchesNone(f)
                   => /\ run.extractor = "none"
                      /\ run.text = None
                      /\ run.doc_error = "Unsupported file type"
              /\ run.extractor # "none"
                   => Lower(FileName(f)[2]) \in {".pdf", ".docx", ".txt"}

\* A Markdown file was offered and refused while a PDF was in the uploader.
C14_Witness ==
  /\ refused # None
  /\ MatchesNone(refused)
  /\ FileType(refused) = MdType
  /\ run.extractor = "pdf"

\* text.split("\n")
RECURSIVE Lines(_, _)
Lines(s, line) ==
  IF s = <<>> THEN <<line>>
  ELSE IF s[1] = "\n" THEN <<line>> \o Lines(Tail(s), <<>>)
  ELSE Lines(Tail(s), Append(line, s[1]))

\* A part of the document, or a byte of it, cannot be read.
Corrupt(f) ==
  IF Extractor(f) = "txt" THEN BAD \in {FileData(f)[i] : i \in 1..Len(FileData(f))}
  ELSE \E k \in 1..Len(FileData(f)) :
         BAD \in {FileData(f)[k][i] : i \in 1..Len(FileData(f)[k])}

\* C15: the extraction of a document returns no text at all when any part
\* of it cannot be read, whatever was read before; otherwise it returns
\* every part in order, an empty one included: the lines of the text of a
\* PDF are its pages, each ended by a newline.
C15_AllOrNothing ==
  (run.processed # <<>> /\ run.extractor # "none")
    => LET f == run.processed[1]
       IN  /\ Corrupt(f) => (run.text = None /\ run.doc_error = "Error reading")
           /\ ~Corrupt(f)
                => /\ run.text # None
                   /\ run.doc_error = ""
                   /\ run.extractor = "pdf"
                        => Lines(run.text, <<>>) = FileData(f) \o << <<>> >>
                   /\ (run.extractor = "docx" /\ FileData(f) # <<>>)
                        => Lines(run.text, <<>>) = FileData(f)
                   /\ run.extractor = "txt" => run.text = FileData(f)

\* A PDF whose second page cannot be read, after a first page that can.
C15_WitnessLatePage ==
  /\ run.extractor = "pdf"
  /\ Len(FileData(run.processed[1])) = 2
  /\ ~Unreadable(<<FileData(run.processed[1])[1]>>)
  /\ FileData(run.processed[1])[1] # <<>>
  /\ Unreadable(<<FileData(run.processed[1])[2]>>)
  /\ run.text = None

\* C16: after a run of the loader body in which some pipelines were
\* constructed before another's construction raised, the session has a
\* model set, and every pipeline that was constructed is in it.
C16_BuiltPipelinesAreKept ==
  run.built # <<>>
    => /\ models # None
       /\ \A i \in 1..Len(run.built) :
            \E j \in 1..Len(models) : models[j] = run.built[i]

\* The first n characters of s, or all of s if it has fewer.
IsPrefixOfLength(p, s, n) ==
  /\ Len(p) = Min(Len(s), n)
  /\ \A i \in 1..Len(p) : p[i] = s[i]

\* C18: the i-th generator call of a quiz run is made for the i-th unit
\* that holds more words than the minimum, units at or below it being
\* passed over; its prompt carries the first max_prompt characters of the
\* stripped unit, and the item shows the generated question of that prompt
\* with the whole stripped unit as reference.
C18_ItemsPairPromptAndUnit ==
  QuizRan
    => /\ Len(run.items) <= Len(run.calls)
       /\ Len(run.calls) <= Cardinality(Surviving(QuizInput))
       /\ \A i \in 1..Len(run.calls) :
            LET unit == SurvivingUnit(QuizInput, i)
                sent == run.calls[i].text
            IN  /\ WordCount(unit) > min_sentence_words
                /\ run.calls[i].cap = "quiz_gen"
                /\ sent[1] = "generate question: "
                /\ IsPrefixOfLength(Tail(sent), Strip(unit), max_prompt)
                /\ i <= Len(run.items)
                     => /\ run.items[i].reference = Strip(unit)
                        /\ run.items[i].question = QuestionOf(sent)

\* A unit of one word was passed over and the item of the next unit,
\* longer than the prompt limit, shows the unit whole.
C18_WitnessTruncated ==
  /\ QuizRan
  /\ run.status = "done"
  /\ Len(run.items) = 1
  /\ Len(run.items[1].reference) > max_prompt
  /\ Len(run.calls[1].text) = 1 + max_prompt
  /\ run.items[1].reference # Strip(UnitAt(QuizInput, CHOOSE e \in Stops(QuizInput) :
                                             \A x \in Stops(QuizInput) : e <= x))

\* C19: the windows of a summarization run start at the offsets 0,
\* max_input, 2*max_input, ...; each is the non-empty slice of the text
\* from its offset to min(offset + max_input, len); the last one is the
\* first that reaches the end of the text, and a text no longer than
\* max_input has the one window that is the text.
C19_WindowsCoverTheText ==
  SummaryRan
    => LET text == SummaryInput
           ws   == run.chunks
           off(k) == (k - 1) * max_input
           end(k) == off(k) + Len(ws[k])
       IN  /\ ws # <<>>
           /\ \A k \in 1..Len(ws) :
                /\ Len(ws[k]) > 0
                /\ end(k) = Min(off(k) + max_input, Len(text))
                /\ \A j \in 1..Len(ws[k]) : ws[k][j] = text[off(k) + j]
                /\ (end(k) = Len(text)) <=> (k = Len(ws))
           /\ Len(text) <= max_input => ws = <<text>>

\* A text of exactly two full windows was chunked into two windows.
C19_WitnessExactMultiple ==
  /\ SummaryRan
  /\ Len(SummaryInput) = 2 * max_input
  /\ Len(run.chunks) = 2

\* C20: the context of a question answering call is taken from the text
\* of the file in the uploader: the cached name is that file's name, the
\* file's extraction yields a text, and the context is that text's start.
C20_ContextOfCurrentFile ==
  QARan
    => /\ uploaded_file # None
       /\ current_document = FileName(uploaded_file)
       /\ Truthy(process_document(uploaded_file))
       /\ IsPrefixOfLength(run.calls[1].text, process_document(uploaded_file),
                           max_context)

\* The most pipeline calls a handler of this kind may make.
MaxDispatches(t) ==
  CASE t.kind = "qa" -> 1
    [] t.kind = "summary" -> max_chunks
    [] t.kind = "quiz" -> t.n
    [] OTHER -> 0

PhaseRank(phase) ==
  CASE phase = "idle" -> 0
    [] phase = "chunking" -> 1
    [] phase = "dispatching" -> 2
    [] phase = "aggregating" -> 3
    [] phase \in {"done", "failed"} -> 4

\* C17: a handler that has started ends done or failed; its phases never
\* go back (a new handler starts from idle after the last one has ended);
\* it makes at most one pipeline call for a question, max_chunks for a
\* summary and the requested number for a quiz; a call that raises ends it
\* failed with the error reported.
C17_TasksTerminate ==
  /\ [](task.calls <= MaxDispatches(task))
  /\ [](task.phase = "failed" => task.error # "")
  /\ [][task'.phase # task.phase
          => \/ PhaseRank(task'.phase) > PhaseRank(task.phase)
             \/ PhaseRank(task.phase) = 4 /\ task'.phase = "idle"]_vars
  /\ (task.phase \notin {"idle", "done", "failed"})
       ~> (task.phase \in {"done", "failed"})

\* A summary of a text of more than max_chunks windows ended done after
\* max_chunks calls.
C17_WitnessCapped ==
  /\ task.kind = "summary"
  /\ task.phase = "done"
  /\ Len(Chunks(task.text)) > max_chunks
  /\ task.calls = max_chunks

\* C21: a summarization run works on a text of at least one character: it
\* never ends in a division by zero, and a run that ends done shows the
\* compression 1 - len(summary)/len(text) as a percentage.  A page whose
\* text is empty, or whose file yielded no text, shows no summary button
\* and has run no summarization.
C21_CompressionDividesByLength ==
  /\ SummaryRan
       => /\ SummaryInput # None
          /\ Len(SummaryInput) > 0
          /\ run.error # "ZeroDivisionError"
          /\ run.status = "done"
               => run.compression
                    = 100 - ((100 * Len(run.summary)) \div Len(SummaryInput))
  /\ (feature = "summary" /\ SummaryInput \in {None, <<>>})
       => /\ "summary_button" \notin run.rendered
          /\ run.status = "idle"

\* A text of one character was summarized and its compression shown.
C21_WitnessShortest ==
  /\ SummaryRan
  /\ run.status = "done"
  /\ Len(SummaryInput) = 1
  /\ run.summary # <<>>

====
